---- MODULE Spec2Model ----
(***************************************************************************)
(* Model of the STON.fi trading-pair service: the pair derivation          *)
(* (calculateTradingPairs), the query engine (filterAndSortPairs), the     *)
(* paginator (paginateResults), the GET /api/pairs handler, and the cache  *)
(* of the long-running server with the routes that read or write it.       *)
(*                                                                         *)
(* JavaScript values are represented as follows.                           *)
(*  - A string is a sequence of one-character strings, so that             *)
(*    toLowerCase, includes and localeCompare can be computed.             *)
(*  - An object is a function whose domain is the set of the properties    *)
(*    that are present; reading an absent property yields undefined.       *)
(*  - A number is a record [nan, n, d, e] standing for NaN or for the      *)
(*    rational (n / d) * 10^e, d > 0, n / d in lowest terms.  Arithmetic   *)
(*    is exact; the rounding of IEEE doubles is not represented.           *)
(*  - formattedPrice (a display string no branch depends on) is not        *)
(*    carried by the pair records.                                         *)
(***************************************************************************)
EXTENDS Integers, Sequences, FiniteSets, TLC

VARIABLES
    pc,              \* position of the computation / of the handler
    method,          \* req.method
    query,           \* req.query
    assetsFetch,     \* the promise of client.getAssets()
    poolsFetch,      \* the promise of client.getPools()
    allPromise,      \* the promise of Promise.all([...])
    assets,          \* argument of calculateTradingPairs
    pools,           \* argument of calculateTradingPairs
    pairs,           \* result of calculateTradingPairs
    filters,         \* second argument of filterAndSortPairs
    filteredPairs,   \* result of filterAndSortPairs
    page,            \* second argument of paginateResults
    limit,           \* third argument of paginateResults
    paginatedResult, \* result of paginateResults
    responses,       \* the responses written to res, in order
    now,             \* Date.now() of the long-running server
    cache,           \* the cache object of the long-running server
    inflight,        \* per route of the server, the request that awaits its fetch
    served           \* the response the last step of the server has written, if any

\* the variables of the long-running server
cacheVars == <<now, cache, inflight, served>>

\* the variables of the pipeline and of the GET /api/pairs handler
pipelineVars ==
    <<pc, method, query, assetsFetch, poolsFetch, allPromise, assets, pools,
      pairs, filters, filteredPairs, page, limit, paginatedResult, responses>>

vars == <<pc, method, query, assetsFetch, poolsFetch, allPromise, assets, pools,
          pairs, filters, filteredPairs, page, limit, paginatedResult, responses,
          now, cache, inflight, served>>

(***************************************************************************)
(* Bounds of the model.                                                    *)
(***************************************************************************)
MaxAssets == 2
MaxPools == 2
MaxQueryPools == 3
MaxItems == 5
MaxPage == 3
MaxLimit == 3

(***************************************************************************)
(* Objects with optional properties.                                       *)
(***************************************************************************)
EmptyObject == <<>>

Has(o, k) == k \in DOMAIN o

\* a property holding a non-empty string is truthy; undefined and "" are falsy
TruthyStr(o, k) == Has(o, k) /\ o[k] # <<>>

\* a property holding a number (an integer here) is truthy unless it is 0
TruthyInt(o, k) == Has(o, k) /\ o[k] # 0

\* the object with property k set to v when present holds, else no property
Prop(present, k, v) == IF present THEN k :> v ELSE EmptyObject

(***************************************************************************)
(* Strings.                                                                *)
(***************************************************************************)
UpperCase == <<"A","B","C","D","E","F","G","H","I","J","K","L","M",
               "N","O","P","Q","R","S","T","U","V","W","X","Y","Z">>
LowerCase == <<"a","b","c","d","e","f","g","h","i","j","k","l","m",
               "n","o","p","q","r","s","t","u","v","w","x","y","z">>
Digits == <<"0","1","2","3","4","5","6","7","8","9">>

UndefinedStr == <<"u","n","d","e","f","i","n","e","d">>

\* the lower-case letter of each upper-case letter
LowerOfUpper ==
    [c \in {UpperCase[i] : i \in DOMAIN UpperCase} |->
        LowerCase[CHOOSE i \in DOMAIN UpperCase : UpperCase[i] = c]]

LowerChar(c) == IF c \in DOMAIN LowerOfUpper THEN LowerOfUpper[c] ELSE c

toLowerCase(s) == [i \in DOMAIN s |-> LowerChar(s[i])]

includes(s, t) ==
    \E i \in 0..(Len(s) - Len(t)) : SubSeq(s, i + 1, i + Len(t)) = t

\* `${o.k}` : an absent property is rendered as the text "undefined"
TemplateStr(o, k) == IF Has(o, k) THEN o[k] ELSE UndefinedStr

(***************************************************************************)
(* Numbers.                                                                *)
(***************************************************************************)
NaN == [nan |-> TRUE, n |-> 0, d |-> 1, e |-> 0]

Num(i) == [nan |-> FALSE, n |-> i, d |-> 1, e |-> 0]

Abs(i) == IF i < 0 THEN -i ELSE i

RECURSIVE GCD(_, _)
GCD(a, b) == IF b = 0 THEN a ELSE GCD(b, a % b)

RECURSIVE Pow10(_)
Pow10(k) == IF k <= 0 THEN 1 ELSE 10 * Pow10(k - 1)

\* x > 0 in JavaScript: false for NaN
GtZero(x) == ~x.nan /\ x.n > 0

\* a / b for a divisor b > 0
Divide(a, b) ==
    IF a.nan \/ b.nan THEN NaN
    ELSE LET nn == a.n * b.d
             dd == a.d * b.n
             g  == GCD(Abs(nn), dd)
         IN  [nan |-> FALSE, n |-> nn \div g, d |-> dd \div g, e |-> a.e - b.e]

\* a * Math.pow(10, k)
TimesPow10(a, k) == IF a.nan THEN NaN ELSE [a EXCEPT !.e = a.e + k]

\* the sign of a - b for two numbers that are not NaN.  The mantissas n/d of
\* the model are below 100 in magnitude, so a difference of the exponents
\* beyond 4 decides the comparison as a difference of 4 does.
Min(a, b) == IF a <= b THEN a ELSE b
Max(a, b) == IF a >= b THEN a ELSE b

SignOfDiff(a, b) ==
    LET ka == Min(Max(a.e - b.e, 0), 4)
        kb == Min(Max(b.e - a.e, 0), 4)
        l  == a.n * b.d * Pow10(ka)
        r  == b.n * a.d * Pow10(kb)
    IN  IF l < r THEN -1 ELSE IF l > r THEN 1 ELSE 0

\* a === b on numbers
NumEq(a, b) == ~a.nan /\ ~b.nan /\ SignOfDiff(a, b) = 0

IsDigit(c) == \E i \in DOMAIN Digits : Digits[i] = c

DigitVal(c) == (CHOOSE i \in DOMAIN Digits : Digits[i] = c) - 1

RECURSIVE DecVal(_)
DecVal(ds) ==
    IF ds = <<>> THEN 0
    ELSE 10 * DecVal(SubSeq(ds, 1, Len(ds) - 1)) + DigitVal(ds[Len(ds)])

\* the longest prefix of s of the form [+-]?[0-9]+ read as a decimal integer,
\* NaN when there is none.  The strings of the model hold no fraction and no
\* exponent part.
ParseDecimal(s) ==
    LET signed == Len(s) > 0 /\ s[1] \in {"-", "+"}
        body == IF signed THEN Tail(s) ELSE s
        k == CHOOSE j \in 0..Len(body) :
                /\ \A i \in 1..j : IsDigit(body[i])
                /\ j = Len(body) \/ ~IsDigit(body[j + 1])
        v == DecVal(SubSeq(body, 1, k))
    IN  IF k = 0 THEN NaN
        ELSE Num(IF signed /\ s[1] = "-" THEN -v ELSE v)

parseFloat(s) == ParseDecimal(s)

parseInt(s) == ParseDecimal(s)

\* parseFloat(o.k || '0')
FloatOrZero(o, k) == parseFloat(IF TruthyStr(o, k) THEN o[k] ELSE <<"0">>)

(***************************************************************************)
(* Array.prototype.sort: a stable sort by the comparator.  Cmp(a, b) < 0   *)
(* puts a before b; elements comparing equal keep their relative order.    *)
(***************************************************************************)
\* sorted with x inserted after the elements that do not come after x
InsertSorted(sorted, x, Cmp(_, _)) ==
    LET k == Cardinality({j \in DOMAIN sorted : Cmp(sorted[j], x) <= 0})
    IN  SubSeq(sorted, 1, k) \o <<x>> \o SubSeq(sorted, k + 1, Len(sorted))

StableSort(s, Cmp(_, _)) ==
    LET F[i \in 0..Len(s)] ==
            IF i = 0 THEN <<>> ELSE InsertSorted(F[i - 1], s[i], Cmp)
    IN  F[Len(s)]

(***************************************************************************)
(* calculateTradingPairs                                                   *)
(***************************************************************************)
\* the keys of assetMap
AssetKeys(as) ==
    {as[i].contractAddress : i \in {j \in DOMAIN as : TruthyStr(as[j], "contractAddress")}}

\* assetMap[addr]: the last asset of the list with that contractAddress
AssetMap(as) ==
    [addr \in AssetKeys(as) |->
        as[CHOOSE i \in DOMAIN as :
              /\ TruthyStr(as[i], "contractAddress")
              /\ as[i].contractAddress = addr
              /\ \A j \in DOMAIN as :
                    (TruthyStr(as[j], "contractAddress")
                        /\ as[j].contractAddress = addr) => j <= i]]

\* parseInt(token.decimals || '9')
DecimalsOf(token) ==
    IF TruthyInt(token, "decimals") THEN Num(token.decimals)
    ELSE parseInt(<<"9">>)

PriceOf(token0, token1, pool) ==
    LET token0Reserve == FloatOrZero(pool, "reserve0")
        token1Reserve == FloatOrZero(pool, "reserve1")
        token0UsdPrice == FloatOrZero(token0, "dexUsdPrice")
        token1UsdPrice == FloatOrZero(token1, "dexUsdPrice")
    IN  IF GtZero(token0UsdPrice) /\ GtZero(token1UsdPrice)
        THEN Divide(token1UsdPrice, token0UsdPrice)
        ELSE IF GtZero(token0Reserve)
        THEN TimesPow10(Divide(token1Reserve, token0Reserve),
                        DecimalsOf(token0).n - DecimalsOf(token1).n)
        ELSE Num(0)

TokenView(token) ==
    Prop(Has(token, "symbol"), "symbol", token.symbol)
    @@ Prop(TruthyStr(token, "displayName") \/ Has(token, "symbol"), "name",
            IF TruthyStr(token, "displayName") THEN token.displayName
            ELSE token.symbol)
    @@ ("address" :> token.contractAddress)
    @@ Prop(Has(token, "decimals"), "decimals", token.decimals)
    @@ ("usdPrice" :> FloatOrZero(token, "dexUsdPrice"))

MakePair(token0, token1, pool) ==
    [id |-> pool.address,
     name |-> TemplateStr(token0, "symbol") \o <<"/">> \o TemplateStr(token1, "symbol"),
     token0 |-> TokenView(token0),
     token1 |-> TokenView(token1),
     price |-> PriceOf(token0, token1, pool),
     liquidity |-> parseFloat(IF TruthyStr(pool, "lpTotalSupplyUsd")
                              THEN pool.lpTotalSupplyUsd
                              ELSE IF TruthyStr(pool, "lpTotalSupply")
                              THEN pool.lpTotalSupply
                              ELSE <<"0">>),
     volume24h |-> FloatOrZero(pool, "volume24hUsd"),
     apy |-> FloatOrZero(pool, "apy1D"),
     poolAddress |-> pool.address,
     reserves |-> [token0 |-> FloatOrZero(pool, "reserve0"),
                   token1 |-> FloatOrZero(pool, "reserve1")],
     popularityIndex |-> FloatOrZero(pool, "popularityIndex")]

\* the conditions read with the snake_case property names the upstream does
\* not send
ResolvableSnakeCase(as, pool) ==
    /\ TruthyStr(pool, "token0_address")
    /\ TruthyStr(pool, "token1_address")
    /\ TruthyStr(pool, "address")
    /\ pool.token0_address \in AssetKeys(as)
    /\ pool.token1_address \in AssetKeys(as)

\* the two nested conditions under which pools.forEach pushes a pair
Resolvable(as, pool) ==
    /\ TruthyStr(pool, "token0Address")
    /\ TruthyStr(pool, "token1Address")
    /\ TruthyStr(pool, "address")
    /\ pool.token0Address \in AssetKeys(as)
    /\ pool.token1Address \in AssetKeys(as)

RECURSIVE PushPairs(_, _)
PushPairs(as, ps) ==
    IF ps = <<>> THEN <<>>
    ELSE LET pool == ps[Len(ps)]
             rest == PushPairs(as, SubSeq(ps, 1, Len(ps) - 1))
         IN  IF Resolvable(as, pool)
             THEN Append(rest, MakePair(AssetMap(as)[pool.token0Address],
                                        AssetMap(as)[pool.token1Address], pool))
             ELSE rest

\* a comparator that orders by liquidity alone
CanonicalCompareLiquidityOnly(a, b) == SignOfDiff(b.liquidity, a.liquidity)

\* the comparator of the final sort
CanonicalCompare(a, b) ==
    IF ~NumEq(b.liquidity, a.liquidity)
    THEN SignOfDiff(b.liquidity, a.liquidity)
    ELSE SignOfDiff(b.popularityIndex, a.popularityIndex)

calculateTradingPairs(as, ps) ==
    StableSort(PushPairs(as, ps), CanonicalCompare)

(***************************************************************************)
(* Values of the variables a computation does not use.                     *)
(***************************************************************************)
NoPromise == [state |-> "none"]

\* null, and a value that is not null
Null == [isNull |-> TRUE]
NotNull(v) == [isNull |-> FALSE, value |-> v]

\* the routes of the server that read or write the cache
sAssets == "/api/assets"
sPools == "/api/pools"
sPair == "/api/pairs/:poolAddress"
sSearch == "/api/pairs/search/:query"
Routes == {sAssets, sPools, sPair, sSearch}

Idle == [state |-> "idle"]
NoResponse == [status |-> 0]

\* let cache = { assets: null, pools: null, lastUpdated: null }; the pairs
\* property, which is absent until a pair route writes it, reads as
\* undefined and is null here
EmptyCache ==
    [assets |-> Null, pools |-> Null, pairs |-> Null, lastUpdated |-> Null]

\* the server takes no part in the computation
CacheUnused ==
    /\ now = 0
    /\ cache = EmptyCache
    /\ inflight = [r \in Routes |-> Idle]
    /\ served = NoResponse

DefaultFilters ==
    [search |-> <<>>, sortBy |-> <<"l","i","q","u","i","d","i","t","y">>,
     sortOrder |-> <<"d","e","s","c">>, minLiquidity |-> Num(0),
     category |-> <<"a","l","l">>]

(***************************************************************************)
(* Bounded inputs of calculateTradingPairs.                                *)
(***************************************************************************)
SeqsUpTo(S, n) == UNION {[1..k -> S] : k \in 0..n}

AddrA == <<"T","0">>
AddrB == <<"T","1">>
AddrC == <<"T","9">>
AddrU == <<"T","2">>
AddrX == <<"T","3">>
PoolAddr(i) == <<"P", Digits[i + 1]>>

SymTON == <<"T","O","N">>
SymSTON == <<"S","T","O","N">>
SymUSDT == <<"U","S","D","T">>

AssetTON ==
    [contractAddress |-> AddrA, symbol |-> SymTON,
     displayName |-> <<"T","o","n","c","o","i","n">>,
     decimals |-> 9, dexUsdPrice |-> <<"5">>]

AssetSTON ==
    [contractAddress |-> AddrB, symbol |-> SymSTON,
     displayName |-> SymSTON, decimals |-> 9, dexUsdPrice |-> <<"1">>]

\* assets that differ in what the join looks at: the contractAddress
JoinAssets ==
    {AssetTON, AssetSTON,
     [symbol |-> SymUSDT, decimals |-> 6],
     [contractAddress |-> <<>>, symbol |-> SymUSDT, decimals |-> 6],
     [contractAddress |-> AddrA, symbol |-> SymUSDT, decimals |-> 6,
      dexUsdPrice |-> <<"1">>]}

\* pools that differ in what the join looks at: the three addresses.  The
\* first shape is complete, the next five have one address absent, empty or
\* unresolved, the last two have several.
JoinPoolShapes ==
    {[address |-> "set", token0 |-> "A", token1 |-> "B"],
     [address |-> "absent", token0 |-> "A", token1 |-> "B"],
     [address |-> "empty", token0 |-> "A", token1 |-> "B"],
     [address |-> "set", token0 |-> "absent", token1 |-> "B"],
     [address |-> "set", token0 |-> "C", token1 |-> "B"],
     [address |-> "set", token0 |-> "A", token1 |-> "empty"],
     [address |-> "absent", token0 |-> "C", token1 |-> "empty"],
     [address |-> "empty", token0 |-> "absent", token1 |-> "B"]}

JoinPool(shape, i) ==
    Prop(shape.address # "absent", "address",
         IF shape.address = "empty" THEN <<>> ELSE PoolAddr(i))
    @@ Prop(shape.token0 # "absent", "token0Address",
            IF shape.token0 = "A" THEN AddrA ELSE AddrC)
    @@ ("token1Address" :> IF shape.token1 = "B" THEN AddrB ELSE <<>>)
    @@ [reserve0 |-> <<"2">>, reserve1 |-> <<"5">>, lpTotalSupplyUsd |-> <<"1">>]

JoinInputs ==
    {[assets |-> as, pools |-> [i \in DOMAIN shapes |-> JoinPool(shapes[i], i)]] :
        as \in SeqsUpTo(JoinAssets, MaxAssets),
        shapes \in SeqsUpTo(JoinPoolShapes, MaxPools)}

\* assets and pools that differ in what the price rule looks at
DecimalsChoices == {"absent", "0", "6", "9"}
UsdChoices == {"absent", "0", "2", "5", "-2"}
ReserveChoices == {"absent", "0", "2", "5", "-5"}

\* the text of a choice, as the upstream sends it
ChoiceStr(c) ==
    CASE c = "0" -> <<"0">> [] c = "2" -> <<"2">> [] c = "5" -> <<"5">>
      [] c = "-2" -> <<"-","2">> [] c = "-5" -> <<"-","5">>

ChoiceInt(c) == CASE c = "0" -> 0 [] c = "6" -> 6 [] c = "9" -> 9

PriceAsset(addr, sym, dec, usd) ==
    [contractAddress |-> addr, symbol |-> sym]
    @@ Prop(dec # "absent", "decimals", ChoiceInt(dec))
    @@ Prop(usd # "absent", "dexUsdPrice", ChoiceStr(usd))

PricePool(r0, r1) ==
    [address |-> PoolAddr(1), token0Address |-> AddrA, token1Address |-> AddrB,
     lpTotalSupplyUsd |-> <<"1">>]
    @@ Prop(r0 # "absent", "reserve0", ChoiceStr(r0))
    @@ Prop(r1 # "absent", "reserve1", ChoiceStr(r1))

PriceInputs ==
    {[assets |-> <<PriceAsset(AddrA, SymTON, d0, u0), PriceAsset(AddrB, SymSTON, d1, u1)>>,
      pools |-> <<PricePool(r0, r1)>>] :
        d0 \in DecimalsChoices, d1 \in DecimalsChoices,
        u0 \in UsdChoices, u1 \in UsdChoices,
        r0 \in ReserveChoices, r1 \in ReserveChoices}

\* pools that differ in what the final sort looks at: the liquidity, taken
\* from lpTotalSupplyUsd, else from lpTotalSupply, else 0, and the
\* popularityIndex
MaxOrderPools == 3

OrderPoolShapes ==
    {[lpTotalSupplyUsd |-> <<"2">>],
     [lpTotalSupplyUsd |-> <<"2">>, popularityIndex |-> <<"1">>],
     [lpTotalSupplyUsd |-> <<"2">>, popularityIndex |-> <<"2">>],
     [lpTotalSupplyUsd |-> <<"1">>, popularityIndex |-> <<"2">>],
     [lpTotalSupply |-> <<"2">>, popularityIndex |-> <<"1">>],
     [popularityIndex |-> <<"1">>]}

OrderInputs ==
    {[assets |-> <<AssetTON, AssetSTON>>,
      pools |-> [i \in DOMAIN shapes |->
                    [address |-> PoolAddr(i), token0Address |-> AddrA,
                     token1Address |-> AddrB] @@ shapes[i]]] :
        shapes \in SeqsUpTo(OrderPoolShapes, MaxOrderPools)}

(***************************************************************************)
(* SpecDerive: calculateTradingPairs applied to bounded inputs.            *)
(***************************************************************************)
InitDerive ==
    /\ \E in \in JoinInputs \cup PriceInputs \cup OrderInputs :
          /\ assets = in.assets
          /\ pools = in.pools
    /\ pc = "input"
    /\ method = <<"G","E","T">>
    /\ query = EmptyObject
    /\ assetsFetch = NoPromise
    /\ poolsFetch = NoPromise
    /\ allPromise = NoPromise
    /\ pairs = <<>>
    /\ filters = DefaultFilters
    /\ filteredPairs = <<>>
    /\ page = 1
    /\ limit = 1
    /\ paginatedResult = EmptyObject
    /\ responses = <<>>
    /\ CacheUnused

DeriveStep ==
    /\ pc = "input"
    /\ pairs' = calculateTradingPairs(assets, pools)
    /\ pc' = "derived"
    /\ UNCHANGED <<method, query, assetsFetch, poolsFetch, allPromise, assets,
                   pools, filters, filteredPairs, page, limit, paginatedResult,
                   responses>>
    /\ UNCHANGED cacheVars

NextDerive == DeriveStep

SpecDerive == InitDerive /\ [][NextDerive]_vars

(***************************************************************************)
(* Claims about calculateTradingPairs.                                     *)
(***************************************************************************)
\* the asset map has the key addr
IsAssetKey(addr) ==
    \E i \in DOMAIN assets :
        Has(assets[i], "contractAddress") /\ assets[i].contractAddress = addr

\* a pool whose three addresses are non-empty and whose tokens both resolve
ResolvablePool(pool) ==
    /\ Has(pool, "address") /\ pool.address # <<>>
    /\ Has(pool, "token0Address") /\ pool.token0Address # <<>>
    /\ Has(pool, "token1Address") /\ pool.token1Address # <<>>
    /\ IsAssetKey(pool.token0Address)
    /\ IsAssetKey(pool.token1Address)

PairsOfPool(pool) ==
    {j \in DOMAIN pairs : Has(pool, "address") /\ pairs[j].id = pool.address}

\* C1: every resolvable pool yields exactly one pair, whose id is the pool's
\* address, every other pool yields none, and the number of pairs is the
\* number of resolvable pools.
C1_JoinExact ==
    pc = "derived" =>
        /\ \A i \in DOMAIN pools :
              Cardinality(PairsOfPool(pools[i])) =
                  IF ResolvablePool(pools[i]) THEN 1 ELSE 0
        /\ Len(pairs) = Cardinality({i \in DOMAIN pools : ResolvablePool(pools[i])})

\* a run where a resolvable pool and a pool that is not resolvable were both
\* given, and the derivation has acted
C1_Witness ==
    /\ pc = "derived"
    /\ \E i \in DOMAIN pools : ResolvablePool(pools[i])
    /\ \E i \in DOMAIN pools :
          ~ResolvablePool(pools[i]) /\ Has(pools[i], "address")
              /\ pools[i].address # <<>>
    /\ Len(pairs) = 1

\* the price the rule of the specification gives for a pool and its tokens
RuleDecimals(token) == IF Has(token, "decimals") THEN token.decimals ELSE 9

RulePrice(pool) ==
    LET token0 == AssetMap(assets)[pool.token0Address]
        token1 == AssetMap(assets)[pool.token1Address]
        usd0 == FloatOrZero(token0, "dexUsdPrice")
        usd1 == FloatOrZero(token1, "dexUsdPrice")
        reserve0 == FloatOrZero(pool, "reserve0")
        reserve1 == FloatOrZero(pool, "reserve1")
    IN  IF GtZero(usd0) /\ GtZero(usd1) THEN Divide(usd1, usd0)
        ELSE IF GtZero(reserve0)
        THEN TimesPow10(Divide(reserve1, reserve0),
                        RuleDecimals(token0) - RuleDecimals(token1))
        ELSE Num(0)

\* C2: the price of every pair is the price of the rule, with each asset's own
\* decimals for every integer decimals >= 0 and 9 only when decimals is absent.
C2_PriceRule ==
    pc = "derived" =>
        \A i \in DOMAIN pools : \A j \in PairsOfPool(pools[i]) :
            NumEq(pairs[j].price, RulePrice(pools[i]))

\* C3: no pair has a negative price, and the price is 0 when the USD prices
\* are not both positive and reserve0 is not positive.
C3_NonNegative ==
    pc = "derived" =>
        \A i \in DOMAIN pools : \A j \in PairsOfPool(pools[i]) :
            /\ ~pairs[j].price.nan
            /\ pairs[j].price.n >= 0
            /\ (~(GtZero(pairs[j].token0.usdPrice) /\ GtZero(pairs[j].token1.usdPrice))
                    /\ ~GtZero(pairs[j].reserves.token0))
                  => pairs[j].price.n = 0

\* C13: whatever the order of the input pools, liquidity is non-increasing
\* along the returned sequence, and among adjacent pairs with equal liquidity
\* popularityIndex is non-increasing.
C13_CanonicalOrder ==
    pc = "derived" =>
        \A i \in 1..(Len(pairs) - 1) :
            /\ SignOfDiff(pairs[i].liquidity, pairs[i + 1].liquidity) >= 0
            /\ NumEq(pairs[i].liquidity, pairs[i + 1].liquidity) =>
                  SignOfDiff(pairs[i].popularityIndex,
                             pairs[i + 1].popularityIndex) >= 0

\* three pools given in an order that is not the canonical one, of which the
\* first two returned have equal liquidity and different popularityIndex and
\* the last has less liquidity
C13_Witness ==
    /\ pc = "derived"
    /\ Len(pairs) = 3
    /\ Len(pools) = 3
    /\ pairs[1].id = pools[3].address
    /\ pairs[3].id = pools[1].address
    /\ NumEq(pairs[1].liquidity, pairs[2].liquidity)
    /\ SignOfDiff(pairs[1].popularityIndex, pairs[2].popularityIndex) > 0
    /\ SignOfDiff(pairs[2].liquidity, pairs[3].liquidity) > 0

(***************************************************************************)
(* filterAndSortPairs                                                      *)
(***************************************************************************)
sLiquidity == <<"l","i","q","u","i","d","i","t","y">>
sVolume == <<"v","o","l","u","m","e">>
sApy == <<"a","p","y">>
sName == <<"n","a","m","e">>
sPrice == <<"p","r","i","c","e">>
sAsc == <<"a","s","c">>
sDesc == <<"d","e","s","c">>
sAll == <<"a","l","l">>
sStablecoins == <<"s","t","a","b","l","e","c","o","i","n","s">>
sMeme == <<"m","e","m","e">>
sDefi == <<"d","e","f","i">>

\* the outcome of the search predicate on one pair: the || chain is evaluated
\* left to right and reading toLowerCase of undefined throws a TypeError
SearchOutcome(pair, searchTerm) ==
    IF includes(toLowerCase(pair.name), searchTerm) THEN "true"
    ELSE IF ~Has(pair.token0, "symbol") THEN "throw"
    ELSE IF includes(toLowerCase(pair.token0.symbol), searchTerm) THEN "true"
    ELSE IF ~Has(pair.token1, "symbol") THEN "throw"
    ELSE IF includes(toLowerCase(pair.token1.symbol), searchTerm) THEN "true"
    ELSE IF ~Has(pair.token0, "name") THEN "throw"
    ELSE IF includes(toLowerCase(pair.token0.name), searchTerm) THEN "true"
    ELSE IF ~Has(pair.token1, "name") THEN "throw"
    ELSE IF includes(toLowerCase(pair.token1.name), searchTerm) THEN "true"
    ELSE IF includes(toLowerCase(pair.poolAddress), searchTerm) THEN "true"
    ELSE "false"

\* Array.prototype.filter
filter(s, Keep(_)) ==
    LET F[i \in 0..Len(s)] ==
            IF i = 0 THEN <<>>
            ELSE IF Keep(s[i]) THEN Append(F[i - 1], s[i]) ELSE F[i - 1]
    IN  F[Len(s)]

\* [a.k, b.k].join(''): undefined is joined as the empty string
JoinProps(a, b, k) ==
    (IF Has(a, k) THEN a[k] ELSE <<>>) \o (IF Has(b, k) THEN b[k] ELSE <<>>)

StablecoinSymbolKeywords ==
    {<<"u","s","d","t">>, <<"u","s","d">>, <<"u","s","d","c">>,
     <<"d","a","i">>, <<"b","u","s","d">>, <<"t","u","s","d">>}
StablecoinNameKeywords ==
    {<<"t","e","t","h","e","r">>, <<"u","s","d"," ","c","o","i","n">>}
MemeSymbolKeywords ==
    {<<"n","o","t">>, <<"n","o","t","c","o","i","n">>,
     <<"h","m","s","t","r">>, <<"h","a","m","s","t","e","r">>,
     <<"d","o","g","s">>, <<"d","o","g">>, <<"f","i","s","h">>,
     <<"t","p","e","t">>, <<"d","o","g","e">>, <<"s","h","i","b">>,
     <<"p","e","p","e">>, <<"w","o","j","a","k">>, <<"c","a","t">>,
     <<"d","u","c","k">>, <<"f","r","o","g">>, <<"b","e","a","r">>,
     <<"m","e","m","e">>, <<"m","o","o","n">>, <<"i","n","u">>,
     <<"f","l","o","k","i">>, <<"e","l","o","n">>, <<"b","a","b","y">>,
     <<"s","a","f","e">>, <<"r","o","c","k","e","t">>}
MemeNameKeywords ==
    {<<"m","e","m","e">>, <<"d","o","g">>, <<"c","a","t">>,
     <<"f","i","s","h">>, <<"h","a","m","s","t","e","r">>,
     <<"n","o","t","c","o","i","n">>}
DefiSymbolKeywords ==
    {<<"t","o","n">>, <<"s","t","o","n">>, <<"h","t","o","n">>,
     <<"t","s","t","o","n">>, <<"u","n","i">>, <<"c","a","k","e">>,
     <<"a","a","v","e">>, <<"c","o","m","p">>, <<"c","u","r","v","e">>,
     <<"b","a","l">>, <<"s","u","s","h","i">>, <<"1","i","n","c","h">>,
     <<"d","e","d","u","s","t">>, <<"s","t","o","r","m">>, <<"l","p">>,
     <<"p","o","o","l">>}
DefiNameKeywords ==
    {<<"d","e","f","i">>, <<"s","t","a","k","e","d">>,
     <<"l","i","q","u","i","d">>, <<"v","a","u","l","t">>}

CategoryMatch(pair, category) ==
    LET symbols == toLowerCase(JoinProps(pair.token0, pair.token1, "symbol"))
        names == toLowerCase(JoinProps(pair.token0, pair.token1, "name"))
        any(text, keywords) == \E kw \in keywords : includes(text, kw)
    IN  IF category = sStablecoins
        THEN any(symbols, StablecoinSymbolKeywords) \/ any(names, StablecoinNameKeywords)
        ELSE IF category = sMeme
        THEN any(symbols, MemeSymbolKeywords) \/ any(names, MemeNameKeywords)
        ELSE IF category = sDefi
        THEN any(symbols, DefiSymbolKeywords) \/ any(names, DefiNameKeywords)
        ELSE TRUE

\* String.prototype.localeCompare on the characters of the model: letters are
\* ordered alphabetically whatever their case, after "/" and the digits; two
\* strings with the same letters are ordered by case, lower case first.
Collation == <<"/">> \o Digits \o LowerCase

CollationRank ==
    [c \in {Collation[i] : i \in DOMAIN Collation} |->
        CHOOSE i \in DOMAIN Collation : Collation[i] = c]

CharRank(c) == CollationRank[LowerChar(c)]

LexCompare(a, b, Rank(_)) ==
    LET common == Min(Len(a), Len(b))
        diffs == {i \in 1..common : Rank(a[i]) # Rank(b[i])}
    IN  IF diffs = {}
        THEN (IF Len(a) < Len(b) THEN -1 ELSE IF Len(a) > Len(b) THEN 1 ELSE 0)
        ELSE LET k == CHOOSE i \in diffs : \A j \in diffs : i <= j
             IN  IF Rank(a[k]) < Rank(b[k]) THEN -1 ELSE 1

CaseRank(c) == IF c \in DOMAIN LowerOfUpper THEN 1 ELSE 0

localeCompare(a, b) ==
    IF LexCompare(a, b, CharRank) # 0 THEN LexCompare(a, b, CharRank)
    ELSE LexCompare(a, b, CaseRank)

\* the comparator without the sortOrder
Comparison(a, b, sortBy) ==
    IF sortBy = sLiquidity THEN SignOfDiff(b.liquidity, a.liquidity)
    ELSE IF sortBy = sVolume THEN SignOfDiff(b.volume24h, a.volume24h)
    ELSE IF sortBy = sApy THEN SignOfDiff(b.apy, a.apy)
    ELSE IF sortBy = sName THEN localeCompare(a.name, b.name)
    ELSE IF sortBy = sPrice THEN SignOfDiff(b.price, a.price)
    ELSE SignOfDiff(b.liquidity, a.liquidity)

\* a comparator that returns the comparison whatever the sortOrder
SortCompareIgnoringOrder(a, b, fs) == Comparison(a, b, fs.sortBy)

SortCompare(a, b, fs) ==
    IF fs.sortOrder = sAsc THEN -Comparison(a, b, fs.sortBy)
    ELSE Comparison(a, b, fs.sortBy)

\* the search filter throws a TypeError on some pair
filterAndSortPairsThrows(ps, fs) ==
    /\ fs.search # <<>>
    /\ \E i \in DOMAIN ps : SearchOutcome(ps[i], toLowerCase(fs.search)) = "throw"

\* a pipeline whose category stage filters the input collection instead of
\* the output of the stages before it
filterAndSortPairsCategoryOnInput(ps, fs) ==
    LET searched ==
            IF fs.search # <<>>
            THEN filter(ps, LAMBDA pair :
                        SearchOutcome(pair, toLowerCase(fs.search)) = "true")
            ELSE ps
        liquid ==
            IF GtZero(fs.minLiquidity)
            THEN filter(searched, LAMBDA pair :
                        ~pair.liquidity.nan
                            /\ SignOfDiff(pair.liquidity, fs.minLiquidity) >= 0)
            ELSE searched
        categorized ==
            IF fs.category # sAll
            THEN filter(ps, LAMBDA pair : CategoryMatch(pair, fs.category))
            ELSE liquid
    IN  StableSort(categorized, LAMBDA a, b : SortCompare(a, b, fs))

\* the value filterAndSortPairs returns when it does not throw
filterAndSortPairs(ps, fs) ==
    LET searched ==
            IF fs.search # <<>>
            THEN filter(ps, LAMBDA pair :
                        SearchOutcome(pair, toLowerCase(fs.search)) = "true")
            ELSE ps
        liquid ==
            IF GtZero(fs.minLiquidity)
            THEN filter(searched, LAMBDA pair :
                        ~pair.liquidity.nan
                            /\ SignOfDiff(pair.liquidity, fs.minLiquidity) >= 0)
            ELSE searched
        categorized ==
            IF fs.category # sAll
            THEN filter(liquid, LAMBDA pair : CategoryMatch(pair, fs.category))
            ELSE liquid
    IN  StableSort(categorized, LAMBDA a, b : SortCompare(a, b, fs))

(***************************************************************************)
(* paginateResults                                                         *)
(***************************************************************************)
\* Math.floor(a / b) for b # 0
Floor(a, b) == IF b > 0 THEN a \div b ELSE (-a) \div (-b)

\* Math.ceil(a / b) for b # 0
Ceil(a, b) == IF b > 0 THEN -((-a) \div b) ELSE -(a \div (-b))

\* Array.prototype.slice(start, end): a negative index counts from the end
slice(data, start, end) ==
    LET len == Len(data)
        k == IF start < 0 THEN Max(len + start, 0) ELSE Min(start, len)
        final == IF end < 0 THEN Max(len + end, 0) ELSE Min(end, len)
    IN  [i \in 1..Max(final - k, 0) |-> data[k + i]]

StartIndexNextPage(p, l) == p * l

StartIndex(p, l) == (p - 1) * l

paginateResults(data, p, l) ==
    LET totalItems == Len(data)
        totalPages == Ceil(totalItems, l)
        startIndex == StartIndex(p, l)
        endIndex == startIndex + l
    IN  [data |-> slice(data, startIndex, endIndex),
         pagination |->
            [currentPage |-> p,
             totalPages |-> totalPages,
             totalItems |-> totalItems,
             itemsPerPage |-> l,
             hasNextPage |-> p < totalPages,
             hasPrevPage |-> p > 1,
             startIndex |-> startIndex + 1,
             endIndex |-> Min(endIndex, totalItems)]]

(***************************************************************************)
(* SpecPaginate: paginateResults applied to bounded inputs.                *)
(***************************************************************************)
InitPaginate ==
    /\ \E n \in 0..MaxItems : filteredPairs = [i \in 1..n |-> i]
    /\ page \in (-MaxPage)..MaxPage
    /\ limit \in {-1} \cup 1..MaxLimit
    /\ pc = "filtered"
    /\ method = <<"G","E","T">>
    /\ query = EmptyObject
    /\ assetsFetch = NoPromise
    /\ poolsFetch = NoPromise
    /\ allPromise = NoPromise
    /\ assets = <<>>
    /\ pools = <<>>
    /\ pairs = <<>>
    /\ filters = DefaultFilters
    /\ paginatedResult = EmptyObject
    /\ responses = <<>>
    /\ CacheUnused

PaginateStep ==
    /\ pc = "filtered"
    /\ paginatedResult' = paginateResults(filteredPairs, page, limit)
    /\ pc' = "paginated"
    /\ UNCHANGED <<method, query, assetsFetch, poolsFetch, allPromise, assets,
                   pools, pairs, filters, filteredPairs, page, limit, responses>>
    /\ UNCHANGED cacheVars

NextPaginate == PaginateStep

SpecPaginate == InitPaginate /\ [][NextPaginate]_vars

(***************************************************************************)
(* Claims about paginateResults.                                           *)
(***************************************************************************)
\* C6: for page >= 1 and limit >= 1 the data is the contiguous slice of the
\* items from (page-1)*limit, in order, of
\* min(limit, max(0, items.length - (page-1)*limit)) elements.
C6_SliceExact ==
    (pc = "paginated" /\ page >= 1 /\ limit >= 1) =>
        LET first == (page - 1) * limit
            count == Min(limit, Max(0, Len(filteredPairs) - first))
        IN  /\ Len(paginatedResult.data) = count
            /\ \A i \in 1..count :
                  paginatedResult.data[i] = filteredPairs[first + i]

\* a last page that is not the first one and is not full
C6_Witness ==
    /\ pc = "paginated"
    /\ page >= 2
    /\ limit >= 2
    /\ Len(paginatedResult.data) > 0
    /\ Len(paginatedResult.data) < limit

\* C7: for page >= 1 and limit >= 1 the metadata is totalItems = items.length,
\* totalPages = ceil(totalItems / limit), hasNextPage = (page < totalPages),
\* hasPrevPage = (page > 1), startIndex = (page-1)*limit + 1,
\* endIndex = min((page-1)*limit + limit, totalItems), and hasNextPage holds
\* exactly when page + 1 has a non-empty slice.
C7_Metadata ==
    (pc = "paginated" /\ page >= 1 /\ limit >= 1) =>
        LET meta == paginatedResult.pagination
            n == Len(filteredPairs)
            pages == CHOOSE k \in 0..n : k * limit >= n /\ (k = 0 \/ (k - 1) * limit < n)
        IN  /\ meta.totalItems = n
            /\ meta.totalPages = pages
            /\ meta.hasNextPage = (page < pages)
            /\ meta.hasPrevPage = (page > 1)
            /\ meta.startIndex = (page - 1) * limit + 1
            /\ meta.endIndex = Min((page - 1) * limit + limit, n)
            /\ meta.hasNextPage = (page * limit < n)
            /\ meta.hasNextPage = (paginateResults(filteredPairs, page + 1, limit).data # <<>>)

\* a middle page: there is a page before and a page after
C7_Witness ==
    /\ pc = "paginated"
    /\ page >= 2
    /\ limit >= 1
    /\ paginatedResult.pagination.hasNextPage
    /\ paginatedResult.pagination.hasPrevPage
    /\ paginatedResult.pagination.totalPages * limit > Len(filteredPairs)

\* C8: for a page outside 1..totalPages (above totalPages, or below 1,
\* negative pages included) the data is empty or holds fewer than limit items.
C8_OutOfRange ==
    (/\ pc = "paginated"
     /\ limit >= 1
     /\ (page > paginatedResult.pagination.totalPages \/ page < 1)) =>
        Len(paginatedResult.data) < limit

(***************************************************************************)
(* SpecQuery: filterAndSortPairs applied to the pairs derived from bounded *)
(* inputs, under bounded filters.                                          *)
(***************************************************************************)
AssetUSDT ==
    [contractAddress |-> AddrU, symbol |-> SymUSDT,
     displayName |-> <<"T","e","t","h","e","r">>,
     decimals |-> 6, dexUsdPrice |-> <<"1">>]

\* an asset record without symbol and displayName
AssetNoSymbol == [contractAddress |-> AddrX, decimals |-> 9]

QueryAssets == <<AssetTON, AssetSTON, AssetUSDT, AssetNoSymbol>>

\* pools that differ in the fields the filters and the sort keys look at
QueryPoolShapes ==
    {[token0Address |-> AddrA, token1Address |-> AddrB,
      lpTotalSupplyUsd |-> <<"2">>, volume24hUsd |-> <<"3">>, apy1D |-> <<"1">>],
     [token0Address |-> AddrB, token1Address |-> AddrA,
      lpTotalSupplyUsd |-> <<"2">>, apy1D |-> <<"2">>],
     [token0Address |-> AddrA, token1Address |-> AddrU,
      lpTotalSupplyUsd |-> <<"1">>, volume24hUsd |-> <<"3">>, apy1D |-> <<"2">>],
     [token0Address |-> AddrU, token1Address |-> AddrB,
      lpTotalSupply |-> <<"5">>, volume24hUsd |-> <<"1">>, apy1D |-> <<"1">>],
     [token0Address |-> AddrA, token1Address |-> AddrX,
      lpTotalSupplyUsd |-> <<"1">>, apy1D |-> <<"1">>]}

QueryPoolLists ==
    {[i \in DOMAIN shapes |-> ("address" :> PoolAddr(i)) @@ shapes[i]] :
        shapes \in SeqsUpTo(QueryPoolShapes, MaxQueryPools)}

QueryFilters ==
    [search : {<<>>, <<"S","t">>},
     sortBy : {sLiquidity, sVolume, sApy, sName, sPrice, <<"r","a","n","k">>},
     sortOrder : {sAsc, sDesc},
     minLiquidity : {Num(0), Num(2)},
     category : {sAll, sStablecoins}]

InitQuery ==
    /\ assets = QueryAssets
    /\ pools \in QueryPoolLists
    /\ pairs = calculateTradingPairs(assets, pools)
    /\ filters \in QueryFilters
    /\ pc = "derived"
    /\ method = <<"G","E","T">>
    /\ query = EmptyObject
    /\ assetsFetch = NoPromise
    /\ poolsFetch = NoPromise
    /\ allPromise = NoPromise
    /\ filteredPairs = <<>>
    /\ page = 1
    /\ limit = 1
    /\ paginatedResult = EmptyObject
    /\ responses = <<>>
    /\ CacheUnused

QueryStep ==
    /\ pc = "derived"
    /\ IF filterAndSortPairsThrows(pairs, filters)
       THEN /\ pc' = "threw"
            /\ UNCHANGED filteredPairs
       ELSE /\ pc' = "filtered"
            /\ filteredPairs' = filterAndSortPairs(pairs, filters)
    /\ UNCHANGED <<method, query, assetsFetch, poolsFetch, allPromise, assets,
                   pools, pairs, filters, page, limit, paginatedResult, responses>>
    /\ UNCHANGED cacheVars

NextQuery == QueryStep

SpecQuery == InitQuery /\ [][NextQuery]_vars

(***************************************************************************)
(* Claims about filterAndSortPairs.                                        *)
(***************************************************************************)
\* the key of a is at least the key of b, for the field sortBy chooses
KeyAtLeast(a, b, sortBy) ==
    IF sortBy = sVolume THEN SignOfDiff(a.volume24h, b.volume24h) >= 0
    ELSE IF sortBy = sApy THEN SignOfDiff(a.apy, b.apy) >= 0
    ELSE IF sortBy = sPrice THEN SignOfDiff(a.price, b.price) >= 0
    ELSE IF sortBy = sName THEN localeCompare(a.name, b.name) >= 0
    ELSE SignOfDiff(a.liquidity, b.liquidity) >= 0

\* C9: with sortOrder = desc the result is non-increasing in the field of
\* sortBy (numeric for liquidity, volume24h, apy and price, lexicographic for
\* name); an unrecognized sortBy sorts as liquidity.
C9_SortedDesc ==
    (pc = "filtered" /\ filters.sortOrder = sDesc) =>
        \A i, j \in DOMAIN filteredPairs :
            i < j => KeyAtLeast(filteredPairs[i], filteredPairs[j], filters.sortBy)

\* the result with sortOrder = desc and the other filters as they are
DescResult == filterAndSortPairs(pairs, [filters EXCEPT !.sortOrder = sDesc])

Reverse(s) == [i \in DOMAIN s |-> s[Len(s) + 1 - i]]

\* two pairs have the same sort key
SameKey(a, b, sortBy) ==
    IF sortBy = sVolume THEN NumEq(a.volume24h, b.volume24h)
    ELSE IF sortBy = sApy THEN NumEq(a.apy, b.apy)
    ELSE IF sortBy = sPrice THEN NumEq(a.price, b.price)
    ELSE IF sortBy = sName THEN a.name = b.name
    ELSE NumEq(a.liquidity, b.liquidity)

DistinctKeys ==
    \A i, j \in DOMAIN filteredPairs :
        i # j => ~SameKey(filteredPairs[i], filteredPairs[j], filters.sortBy)

RelaxedFilters ==
    {fs \in {[filters EXCEPT !.search = <<>>],
             [filters EXCEPT !.minLiquidity = Num(0)],
             [filters EXCEPT !.category = sAll]} : fs # filters}

\* the number of positions of s that hold x
Occurrences(s, x) == Cardinality({i \in DOMAIN s : s[i] = x})

\* C12: the result is a sub-collection of the input (every returned pair is
\* an input pair and is returned no more often than the input holds it), and
\* the result has no more pairs than the result with one of the filters that
\* are on (a non-empty search, a minLiquidity > 0, a category other than all)
\* turned off and the other filters unchanged.
C12_SubCollectionMonotone ==
    pc = "filtered" =>
        /\ \A j \in DOMAIN filteredPairs :
              /\ Occurrences(pairs, filteredPairs[j]) >= 1
              /\ Occurrences(filteredPairs, filteredPairs[j])
                    <= Occurrences(pairs, filteredPairs[j])
        /\ Len(filteredPairs) <= Len(pairs)
        /\ \A fs \in RelaxedFilters :
              Len(filteredPairs) <= Len(filterAndSortPairs(pairs, fs))

\* the three filters are on, some pair is returned, some is not, and turning
\* one of the filters off returns more pairs
C12_Witness ==
    /\ pc = "filtered"
    /\ filters.search # <<>>
    /\ GtZero(filters.minLiquidity)
    /\ filters.category # sAll
    /\ Len(filteredPairs) >= 1
    /\ Len(filteredPairs) < Len(pairs)
    /\ Cardinality(RelaxedFilters) = 3
    /\ \E fs \in RelaxedFilters :
          Len(filteredPairs) < Len(filterAndSortPairs(pairs, fs))

(***************************************************************************)
(* SpecCategory: filterAndSortPairs applied with the category filter alone *)
(* to the pairs derived from assets whose symbols and display names hold   *)
(* keywords of the categories.                                             *)
(***************************************************************************)
MaxCategoryPools == 2

AddrD == <<"T","4">>
AddrG == <<"T","5">>
AddrF == <<"T","6">>

\* a token whose display name, not its symbol, holds a keyword ("duck") the
\* code looks for in the symbols
AssetDuck ==
    [contractAddress |-> AddrD, symbol |-> <<"D","C","K">>,
     displayName |-> <<"D","u","c","k">>, decimals |-> 9]

\* a token whose display name holds "usd" and whose symbol does not
AssetGold ==
    [contractAddress |-> AddrG, symbol |-> <<"G","L","D">>,
     displayName |-> <<"G","o","l","d"," ","U","s","d">>, decimals |-> 9]

\* a token whose symbol, not its display name, holds a keyword ("defi") the
\* code looks for in the names
AssetDefi ==
    [contractAddress |-> AddrF, symbol |-> <<"D","E","F","I">>,
     displayName |-> <<"D","e"," ","F","i">>, decimals |-> 9]

CategoryAssets ==
    <<AssetTON, AssetUSDT, AssetDuck, AssetGold, AssetDefi, AssetNoSymbol>>

CategoryPoolShapes ==
    {[token0Address |-> AddrA, token1Address |-> AddrU],
     [token0Address |-> AddrA, token1Address |-> AddrD],
     [token0Address |-> AddrD, token1Address |-> AddrG],
     [token0Address |-> AddrG, token1Address |-> AddrF],
     [token0Address |-> AddrF, token1Address |-> AddrX],
     [token0Address |-> AddrX, token1Address |-> AddrD],
     [token0Address |-> AddrG, token1Address |-> AddrX]}

CategoryPoolLists ==
    {[i \in DOMAIN shapes |->
        [address |-> PoolAddr(i), lpTotalSupplyUsd |-> <<"1">>] @@ shapes[i]] :
        shapes \in SeqsUpTo(CategoryPoolShapes, MaxCategoryPools)}

\* the categories of the switch and one it does not know
CategoryChoices == {sAll, sStablecoins, sMeme, sDefi, <<"n","f","t">>}

InitCategory ==
    /\ assets = CategoryAssets
    /\ pools \in CategoryPoolLists
    /\ pairs = calculateTradingPairs(assets, pools)
    /\ \E c \in CategoryChoices : filters = [DefaultFilters EXCEPT !.category = c]
    /\ pc = "derived"
    /\ method = <<"G","E","T">>
    /\ query = EmptyObject
    /\ assetsFetch = NoPromise
    /\ poolsFetch = NoPromise
    /\ allPromise = NoPromise
    /\ filteredPairs = <<>>
    /\ page = 1
    /\ limit = 1
    /\ paginatedResult = EmptyObject
    /\ responses = <<>>
    /\ CacheUnused

SpecCategory == InitCategory /\ [][NextQuery]_vars

\* the keyword set the glossary gives for a category: the keywords the code
\* looks for in the symbols together with those it looks for in the names
GlossaryKeywords(category) ==
    IF category = sStablecoins
    THEN StablecoinSymbolKeywords \cup StablecoinNameKeywords
    ELSE IF category = sMeme
    THEN MemeSymbolKeywords \cup MemeNameKeywords
    ELSE DefiSymbolKeywords \cup DefiNameKeywords

\* some keyword of the glossary set is a case-insensitive substring of the
\* concatenated symbols or of the concatenated display names
GlossaryMatch(pair, category) ==
    LET symbols == toLowerCase(JoinProps(pair.token0, pair.token1, "symbol"))
        names == toLowerCase(JoinProps(pair.token0, pair.token1, "name"))
    IN  \E kw \in GlossaryKeywords(category) :
            includes(symbols, kw) \/ includes(names, kw)

IsReturned(pair) == \E j \in DOMAIN filteredPairs : filteredPairs[j] = pair

\* C11: for stablecoins, meme and defi the category filter keeps a pair
\* exactly when some keyword of the category's glossary set is a
\* case-insensitive substring of the concatenated symbols or of the
\* concatenated display names, every keyword being tested against both; the
\* category all keeps every pair.
C11_CategoryKeywords ==
    pc = "filtered" =>
        /\ filters.category \in {sStablecoins, sMeme, sDefi} =>
              \A i \in DOMAIN pairs :
                  IsReturned(pairs[i]) <=> GlossaryMatch(pairs[i], filters.category)
        /\ filters.category = sAll =>
              \A i \in DOMAIN pairs : IsReturned(pairs[i])


(***************************************************************************)
(* The GET /api/pairs handler.                                             *)
(***************************************************************************)
sGET == <<"G","E","T">>
sPOST == <<"P","O","S","T">>

\* a value a fetch resolves with: a bare list, or an object that wraps the
\* list under a key
BareList(items) == [isArray |-> TRUE, items |-> items]
WrappedList(key, items) == ("isArray" :> FALSE) @@ (key :> items)

\* parseInt(req.query.k) || dflt
QueryInt(q, k, dflt) ==
    IF ~Has(q, k) THEN dflt
    ELSE LET v == parseInt(q[k])
         IN  IF v.nan \/ v.n = 0 THEN dflt ELSE v.n

\* parseFloat(req.query.k) || 0
QueryFloat(q, k) ==
    IF ~Has(q, k) THEN Num(0)
    ELSE LET v == parseFloat(q[k])
         IN  IF v.nan THEN Num(0) ELSE v

\* req.query.k || dflt
QueryStr(q, k, dflt) == IF TruthyStr(q, k) THEN q[k] ELSE dflt

DefaultLimit == 50

QueryFiltersOf(q) ==
    [search |-> QueryStr(q, "search", <<>>),
     sortBy |-> QueryStr(q, "sortBy", sLiquidity),
     sortOrder |-> QueryStr(q, "sortOrder", sDesc),
     minLiquidity |-> QueryFloat(q, "minLiquidity"),
     category |-> QueryStr(q, "category", sAll)]

\* a combinator that is fulfilled by the first fetch that resolves
SettleFirst(all, mine, other) ==
    IF all.state # "pending" THEN all
    ELSE IF mine.state = "rejected"
    THEN [state |-> "rejected", error |-> mine.error]
    ELSE [state |-> "fulfilled"]

\* the state of Promise.all([mine, other]) after mine has settled
SettleAll(all, mine, other) ==
    IF all.state # "pending" THEN all
    ELSE IF mine.state = "rejected"
    THEN [state |-> "rejected", error |-> mine.error]
    ELSE IF other.state = "resolved"
    THEN [state |-> "fulfilled"]
    ELSE all

MethodNotAllowed ==
    [status |-> 405,
     body |-> [success |-> FALSE, error |-> "Method not allowed"]]

\* the response of the catch block
ErrorResponse(message) ==
    [status |-> 500,
     body |-> [success |-> FALSE, error |-> message,
               message |-> "Failed to fetch trading pairs from STON.fi"]]

\* a response whose totalPairs is the number of pairs after filtering
SuccessResponseFilteredTotal(result, fs, ps) ==
    [status |-> 200,
     body |-> [success |-> TRUE,
               data |-> result.data,
               pagination |-> result.pagination,
               filters |-> fs,
               cached |-> FALSE,
               totalPairs |-> result.pagination.totalItems,
               priceDataFresh |-> TRUE]]

SuccessResponse(result, fs, ps) ==
    [status |-> 200,
     body |-> [success |-> TRUE,
               data |-> result.data,
               pagination |-> result.pagination,
               filters |-> fs,
               cached |-> FALSE,
               totalPairs |-> Len(ps),
               priceDataFresh |-> TRUE]]

\* bounded requests and upstream results; Absent marks a query parameter
\* the request does not carry
Absent == <<"absent">>

HandlerQueries ==
    {Prop(pg # Absent, "page", pg) @@ Prop(lm # Absent, "limit", lm)
        @@ Prop(se # Absent, "search", se) @@ Prop(sb # Absent, "sortBy", sb)
        @@ Prop(so # Absent, "sortOrder", so)
        @@ Prop(ml # Absent, "minLiquidity", ml)
        @@ Prop(ca # Absent, "category", ca) :
        pg \in {Absent, <<"2">>, <<"-","1">>, <<"0">>, <<"x">>},
        lm \in {Absent, <<"1">>, <<"-","1">>},
        se \in {Absent, <<"S","t">>},
        sb \in {Absent, sName},
        so \in {Absent, sAsc},
        ml \in {Absent, <<"2">>},
        ca \in {Absent, sStablecoins}}

HandlerPools ==
    <<[address |-> PoolAddr(1), token0Address |-> AddrA, token1Address |-> AddrB,
       lpTotalSupplyUsd |-> <<"2">>, volume24hUsd |-> <<"3">>, apy1D |-> <<"1">>],
      [address |-> PoolAddr(2), token0Address |-> AddrA, token1Address |-> AddrU,
       lpTotalSupplyUsd |-> <<"1">>, volume24hUsd |-> <<"3">>, apy1D |-> <<"2">>],
      [address |-> PoolAddr(3), token0Address |-> AddrU, token1Address |-> AddrB,
       lpTotalSupply |-> <<"5">>, volume24hUsd |-> <<"1">>, apy1D |-> <<"1">>]>>

\* a pool whose second token is the asset without symbol
PoolNoSymbol ==
    [address |-> PoolAddr(4), token0Address |-> AddrA, token1Address |-> AddrX,
     lpTotalSupplyUsd |-> <<"1">>, apy1D |-> <<"1">>]

UpstreamAssets ==
    {BareList(QueryAssets), BareList(<<AssetTON, AssetSTON, AssetUSDT>>),
     BareList(<<>>), WrappedList("asset_list", QueryAssets)}

UpstreamPools ==
    {BareList(HandlerPools), BareList(Append(HandlerPools, PoolNoSymbol)),
     BareList(<<>>), WrappedList("pool_list", HandlerPools)}

Init ==
    /\ pc = "idle"
    /\ method = sGET
    /\ query = EmptyObject
    /\ assetsFetch = NoPromise
    /\ poolsFetch = NoPromise
    /\ allPromise = NoPromise
    /\ assets = BareList(<<>>)
    /\ pools = BareList(<<>>)
    /\ pairs = <<>>
    /\ filters = DefaultFilters
    /\ filteredPairs = <<>>
    /\ page = 1
    /\ limit = DefaultLimit
    /\ paginatedResult = EmptyObject
    /\ responses = <<>>
    /\ CacheUnused

\* a request with another method is answered 405 before anything is fetched
ReceiveOther ==
    /\ pc = "idle"
    /\ method' = sPOST
    /\ \E q \in HandlerQueries : query' = q
    /\ responses' = Append(responses, MethodNotAllowed)
    /\ pc' = "done"
    /\ UNCHANGED <<assetsFetch, poolsFetch, allPromise, assets, pools, pairs,
                   filters, filteredPairs, page, limit, paginatedResult>>
    /\ UNCHANGED cacheVars

\* a GET request: the query is read, both fetches are issued and the handler
\* awaits Promise.all
ReceiveGet ==
    /\ pc = "idle"
    /\ method' = sGET
    /\ \E q \in HandlerQueries :
          /\ query' = q
          /\ page' = QueryInt(q, "page", 1)
          /\ limit' = QueryInt(q, "limit", DefaultLimit)
          /\ filters' = QueryFiltersOf(q)
    /\ assetsFetch' = [state |-> "pending"]
    /\ poolsFetch' = [state |-> "pending"]
    /\ allPromise' = [state |-> "pending"]
    /\ pc' = "await"
    /\ UNCHANGED <<assets, pools, pairs, filteredPairs, paginatedResult, responses>>
    /\ UNCHANGED cacheVars

AssetsResolve ==
    /\ assetsFetch.state = "pending"
    /\ \E v \in UpstreamAssets :
          assetsFetch' = [state |-> "resolved", value |-> v]
    /\ allPromise' = SettleAll(allPromise, assetsFetch', poolsFetch)
    /\ UNCHANGED <<pc, method, query, poolsFetch, assets, pools, pairs, filters,
                   filteredPairs, page, limit, paginatedResult, responses>>
    /\ UNCHANGED cacheVars

AssetsReject ==
    /\ assetsFetch.state = "pending"
    /\ assetsFetch' = [state |-> "rejected", error |-> "getAssets failed"]
    /\ allPromise' = SettleAll(allPromise, assetsFetch', poolsFetch)
    /\ UNCHANGED <<pc, method, query, poolsFetch, assets, pools, pairs, filters,
                   filteredPairs, page, limit, paginatedResult, responses>>
    /\ UNCHANGED cacheVars

PoolsResolve ==
    /\ poolsFetch.state = "pending"
    /\ \E v \in UpstreamPools :
          poolsFetch' = [state |-> "resolved", value |-> v]
    /\ allPromise' = SettleAll(allPromise, poolsFetch', assetsFetch)
    /\ UNCHANGED <<pc, method, query, assetsFetch, assets, pools, pairs, filters,
                   filteredPairs, page, limit, paginatedResult, responses>>
    /\ UNCHANGED cacheVars

PoolsReject ==
    /\ poolsFetch.state = "pending"
    /\ poolsFetch' = [state |-> "rejected", error |-> "getPools failed"]
    /\ allPromise' = SettleAll(allPromise, poolsFetch', assetsFetch)
    /\ UNCHANGED <<pc, method, query, assetsFetch, assets, pools, pairs, filters,
                   filteredPairs, page, limit, paginatedResult, responses>>
    /\ UNCHANGED cacheVars

\* the await throws the rejection of Promise.all into the catch block
ResumeRejected ==
    /\ pc = "await"
    /\ allPromise.state = "rejected"
    /\ responses' = Append(responses, ErrorResponse(allPromise.error))
    /\ pc' = "done"
    /\ UNCHANGED <<method, query, assetsFetch, poolsFetch, allPromise, assets,
                   pools, pairs, filters, filteredPairs, page, limit,
                   paginatedResult>>
    /\ UNCHANGED cacheVars

\* the await yields [assets, pools] and the pipeline runs to the response; a
\* TypeError thrown on the way is caught by the catch block
ResumeFulfilled ==
    /\ pc = "await"
    /\ allPromise.state = "fulfilled"
    /\ assets' = assetsFetch.value
    /\ pools' = poolsFetch.value
    /\ pc' = "done"
    /\ IF ~assets'.isArray
       THEN /\ responses' = Append(responses,
                                   ErrorResponse("assets.forEach is not a function"))
            /\ UNCHANGED <<pairs, filteredPairs, paginatedResult>>
       ELSE IF ~pools'.isArray
       THEN /\ responses' = Append(responses,
                                   ErrorResponse("pools.forEach is not a function"))
            /\ UNCHANGED <<pairs, filteredPairs, paginatedResult>>
       ELSE /\ pairs' = calculateTradingPairs(assets'.items, pools'.items)
            /\ IF filterAndSortPairsThrows(pairs', filters)
               THEN /\ responses' = Append(responses, ErrorResponse(
                            "Cannot read properties of undefined (reading 'toLowerCase')"))
                    /\ UNCHANGED <<filteredPairs, paginatedResult>>
               ELSE /\ filteredPairs' = filterAndSortPairs(pairs', filters)
                    /\ paginatedResult' = paginateResults(filteredPairs', page, limit)
                    /\ responses' = Append(responses,
                            SuccessResponse(paginatedResult', filters, pairs'))
    /\ UNCHANGED <<method, query, assetsFetch, poolsFetch, allPromise, filters,
                   page, limit>>
    /\ UNCHANGED cacheVars

Next ==
    \/ ReceiveOther
    \/ ReceiveGet
    \/ AssetsResolve
    \/ AssetsReject
    \/ PoolsResolve
    \/ PoolsReject
    \/ ResumeRejected
    \/ ResumeFulfilled

Spec == Init /\ [][Next]_vars

(***************************************************************************)
(* Claims about the handler.                                               *)
(***************************************************************************)
BothFetched ==
    assetsFetch.state = "resolved" /\ poolsFetch.state = "resolved"

SomeFetchFailed ==
    assetsFetch.state = "rejected" \/ poolsFetch.state = "rejected"

\* the messages of the fetches that failed
FailureMessages ==
    {f.error : f \in {g \in {assetsFetch, poolsFetch} : g.state = "rejected"}}

IsSuccess(r) == r.status = 200 /\ r.body.success

\* C4: a request whose two fetches both succeed, each with a list of records,
\* is answered with one success response (status 200, success: true), whatever
\* the records and the query parameters are.
C4_SuccessWhenFetched ==
    (/\ pc = "done"
     /\ BothFetched
     /\ assetsFetch.value.isArray
     /\ poolsFetch.value.isArray) =>
        (Len(responses) = 1 /\ IsSuccess(responses[1]))

\* C5: the two fetches are issued together, the pipeline runs and a success
\* response is built only after both have resolved, and a request one of whose
\* fetches fails gets exactly one response, a 500 with success: false that
\* carries the message of a failed fetch.
C5_AllOrNothing ==
    /\ (assetsFetch.state = "none") = (poolsFetch.state = "none")
    /\ Len(responses) <= 1
    /\ pc = "done" => Len(responses) = 1
    /\ allPromise.state = "fulfilled" => BothFetched
    /\ (pairs # <<>> \/ paginatedResult # EmptyObject) => BothFetched
    /\ \A i \in DOMAIN responses : IsSuccess(responses[i]) => BothFetched
    /\ (pc = "done" /\ SomeFetchFailed) =>
          /\ responses[1].status = 500
          /\ ~responses[1].body.success
          /\ responses[1].body.error \in FailureMessages

\* the assets have arrived, the pools fetch has failed and the request has
\* been answered
C5_Witness ==
    /\ pc = "done"
    /\ assetsFetch.state = "resolved"
    /\ assetsFetch.value = BareList(QueryAssets)
    /\ poolsFetch.state = "rejected"
    /\ Len(responses) = 1
    /\ responses[1].status = 500

\* the list of records a fetch result holds, bare or wrapped under key
RecordsOf(value, key) == IF value.isArray THEN value.items ELSE value[key]

\* the success response of the pipeline for the records of the two results
ResponseForRecords ==
    LET ps == calculateTradingPairs(RecordsOf(assetsFetch.value, "asset_list"),
                                    RecordsOf(poolsFetch.value, "pool_list"))
    IN  SuccessResponse(
            paginateResults(filterAndSortPairs(ps, filters), page, limit),
            filters, ps)

\* C14: a fetch result that wraps its list under asset_list or pool_list is
\* normalized to the list: the request is answered with the success response
\* the same records give as bare lists, not with an error.
C14_WrappedNormalized ==
    (/\ pc = "done"
     /\ BothFetched
     /\ (~assetsFetch.value.isArray \/ ~poolsFetch.value.isArray)
     /\ ~filterAndSortPairsThrows(
            calculateTradingPairs(RecordsOf(assetsFetch.value, "asset_list"),
                                  RecordsOf(poolsFetch.value, "pool_list")),
            filters)) =>
        responses = <<ResponseForRecords>>

\* a derived pair passes the filters of the request that are on
PassesFilters(pair) ==
    /\ filters.search # <<>> =>
          SearchOutcome(pair, toLowerCase(filters.search)) = "true"
    /\ GtZero(filters.minLiquidity) =>
          SignOfDiff(pair.liquidity, filters.minLiquidity) >= 0
    /\ filters.category # sAll => CategoryMatch(pair, filters.category)

\* C15: in every success response totalPairs is the number of derived pairs
\* before any filter (one per resolvable pool of the fetched pools),
\* pagination.totalItems is the number of derived pairs that pass the
\* filters, totalItems <= totalPairs and data.length <= totalItems.
C15_Totals ==
    \A k \in DOMAIN responses :
        IsSuccess(responses[k]) =>
            LET body == responses[k].body
            IN  /\ body.totalPairs =
                      Cardinality({i \in DOMAIN pools.items :
                                      Resolvable(assets.items, pools.items[i])})
                /\ body.pagination.totalItems =
                      Cardinality({i \in DOMAIN pairs : PassesFilters(pairs[i])})
                /\ body.pagination.totalItems <= body.totalPairs
                /\ Len(body.data) <= body.pagination.totalItems

\* a success response of a page that holds some of the pairs the filters
\* keep, which are some of the derived pairs
C15_Witness ==
    /\ pc = "done"
    /\ Len(responses) = 1
    /\ IsSuccess(responses[1])
    /\ Len(responses[1].body.data) >= 1
    /\ Len(responses[1].body.data) < responses[1].body.pagination.totalItems
    /\ responses[1].body.pagination.totalItems < responses[1].body.totalPairs

\* the text of a query parameter parses to an integer >= 1
ParsesToPositive(q, k) ==
    Has(q, k) /\ ~parseInt(q[k]).nan /\ parseInt(q[k]).n >= 1

\* C16: the page and limit the handler passes to paginateResults are
\* integers >= 1; a query value that does not parse to such an integer
\* (missing, non-numeric, zero or negative) is replaced by the default,
\* page = 1 or limit = 50.
C16_PageLimitDefaults ==
    (method = sGET /\ pc \in {"await", "done"}) =>
        /\ page >= 1
        /\ limit >= 1
        /\ ~ParsesToPositive(query, "page") => page = 1
        /\ ~ParsesToPositive(query, "limit") => limit = DefaultLimit

(***************************************************************************)
(* The long-running server: the cache and the routes that read or write    *)
(* it.  A cached dataset carries the time it was fetched at, which the     *)
(* code does not record.  A handler that awaits a fetch is suspended in    *)
(* inflight; the other routes run and time passes meanwhile.  The route    *)
(* GET /api/pairs of the server neither reads nor writes the cache.        *)
(***************************************************************************)
CACHE_DURATION == 60000

\* the time that passes in one step of the clock, and the number of steps
TickMs == 30000
MaxTicks == 4

\* a dataset stored in the cache at time t
Fetched(v, t) == [isNull |-> FALSE, value |-> v, fetchedAt |-> t]

\* cache.lastUpdated is neither null nor 0
TruthyTime(t) == ~t.isNull /\ t.value # 0

isCacheValid ==
    TruthyTime(cache.lastUpdated)
        /\ (now - cache.lastUpdated.value) < CACHE_DURATION

\* assets.asset_list || assets, as calculateTradingPairs iterates it
ListArg(value, key) == IF Has(value, key) THEN value[key] ELSE value.items

\* a response the server writes; at is the time it is written at, which for
\* a response without a fetch is the time the request arrived at; fromCache
\* tells that no fetch was made for it, dataFetchedAt is the time the data it
\* carries was fetched at
Response(route, status, body, at, fromCache, dataFetchedAt) ==
    [route |-> route, status |-> status, body |-> body, at |-> at,
     fromCache |-> fromCache, dataFetchedAt |-> dataFetchedAt]

Pending(param) == [state |-> "pending", param |-> param]

\* the response of the catch blocks of the server
ServerError(route, message, at) ==
    Response(route, 500, [success |-> FALSE, error |-> message], at, FALSE, Null)

\* the values the upstream answers with
ServerAssets ==
    {BareList(QueryAssets), WrappedList("asset_list", QueryAssets)}

ServerPools ==
    {BareList(Append(HandlerPools, PoolNoSymbol)),
     WrappedList("pool_list", Append(HandlerPools, PoolNoSymbol))}

\* req.params of the two pair routes
PoolAddressParams == {PoolAddr(1), PoolAddr(9)}
SearchParams == {<<"T","O","N">>, <<"S","t">>}

\* GET /api/assets up to the await
AssetsRequest ==
    /\ inflight[sAssets] = Idle
    /\ IF isCacheValid /\ ~cache.assets.isNull
       THEN /\ served' = Response(sAssets, 200,
                            [success |-> TRUE, data |-> cache.assets.value,
                             cached |-> TRUE],
                            now, TRUE, NotNull(cache.assets.fetchedAt))
            /\ UNCHANGED inflight
       ELSE /\ inflight' = [inflight EXCEPT ![sAssets] = Pending(<<>>)]
            /\ served' = NoResponse
    /\ UNCHANGED <<now, cache>>
    /\ UNCHANGED pipelineVars

\* GET /api/assets after getAssets has resolved
AssetsFetched ==
    /\ inflight[sAssets].state = "pending"
    /\ \E v \in ServerAssets :
          /\ cache' = [cache EXCEPT
                          !.assets = Fetched(v, now),
                          !.lastUpdated = IF TruthyTime(@) THEN @ ELSE NotNull(now)]
          /\ served' = Response(sAssets, 200,
                          [success |-> TRUE, data |-> v, cached |-> FALSE]
                              @@ Prop(v.isArray, "totalAssets", Len(v.items)),
                          now, FALSE, NotNull(now))
    /\ inflight' = [inflight EXCEPT ![sAssets] = Idle]
    /\ UNCHANGED now
    /\ UNCHANGED pipelineVars

\* GET /api/assets after getAssets has failed
AssetsFailed ==
    /\ inflight[sAssets].state = "pending"
    /\ served' = ServerError(sAssets, "getAssets failed", now)
    /\ inflight' = [inflight EXCEPT ![sAssets] = Idle]
    /\ UNCHANGED <<now, cache>>
    /\ UNCHANGED pipelineVars

\* GET /api/pools up to the await
PoolsRequest ==
    /\ inflight[sPools] = Idle
    /\ IF isCacheValid /\ ~cache.pools.isNull
       THEN /\ served' = Response(sPools, 200,
                            [success |-> TRUE, data |-> cache.pools.value,
                             cached |-> TRUE],
                            now, TRUE, NotNull(cache.pools.fetchedAt))
            /\ UNCHANGED inflight
       ELSE /\ inflight' = [inflight EXCEPT ![sPools] = Pending(<<>>)]
            /\ served' = NoResponse
    /\ UNCHANGED <<now, cache>>
    /\ UNCHANGED pipelineVars

\* GET /api/pools after getPools has resolved
PoolsFetched ==
    /\ inflight[sPools].state = "pending"
    /\ \E v \in ServerPools :
          /\ cache' = [cache EXCEPT
                          !.pools = Fetched(v, now),
                          !.lastUpdated = IF TruthyTime(@) THEN @ ELSE NotNull(now)]
          /\ served' = Response(sPools, 200,
                          [success |-> TRUE, data |-> v, cached |-> FALSE]
                              @@ Prop(v.isArray, "totalPools", Len(v.items)),
                          now, FALSE, NotNull(now))
    /\ inflight' = [inflight EXCEPT ![sPools] = Idle]
    /\ UNCHANGED now
    /\ UNCHANGED pipelineVars

\* GET /api/pools after getPools has failed
PoolsFailed ==
    /\ inflight[sPools].state = "pending"
    /\ served' = ServerError(sPools, "getPools failed", now)
    /\ inflight' = [inflight EXCEPT ![sPools] = Idle]
    /\ UNCHANGED <<now, cache>>
    /\ UNCHANGED pipelineVars

\* calculateTradingPairs(assets.asset_list || assets, pools.pool_list || pools)
\* for each of the values the upstream answers with
ServerPairs ==
    [as \in ServerAssets, ps \in ServerPools |->
        calculateTradingPairs(ListArg(as, "asset_list"), ListArg(ps, "pool_list"))]

\* cache.pairs = calculateTradingPairs(...); cache.lastUpdated = Date.now()
RefreshPairs(as, ps) ==
    [cache EXCEPT
        !.pairs = Fetched(ServerPairs[as, ps], now),
        !.lastUpdated = NotNull(now)]

\* the rest of GET /api/pairs/:poolAddress: find the pair in c.pairs and answer
PairResponse(c, poolAddress, at, fromCache) ==
    LET found == {i \in DOMAIN c.pairs.value :
                     c.pairs.value[i].poolAddress = poolAddress}
    IN  IF found = {}
        THEN Response(sPair, 404,
                 [success |-> FALSE, error |-> "Pool not found",
                  message |-> <<"No trading pair found for pool address: ">>
                                  \o poolAddress],
                 at, fromCache, Null)
        ELSE Response(sPair, 200,
                 [success |-> TRUE,
                  data |-> c.pairs.value[CHOOSE i \in found :
                                            \A j \in found : i <= j],
                  lastUpdated |-> c.lastUpdated.value],
                 at, fromCache, NotNull(c.pairs.fetchedAt))

\* GET /api/pairs/:poolAddress up to the await
PairRequest ==
    /\ inflight[sPair] = Idle
    /\ \E poolAddress \in PoolAddressParams :
          IF ~isCacheValid \/ cache.pairs.isNull
          THEN /\ inflight' = [inflight EXCEPT ![sPair] = Pending(poolAddress)]
               /\ served' = NoResponse
          ELSE /\ served' = PairResponse(cache, poolAddress, now, TRUE)
               /\ UNCHANGED inflight
    /\ UNCHANGED <<now, cache>>
    /\ UNCHANGED pipelineVars

\* GET /api/pairs/:poolAddress after both fetches have resolved
PairFetched ==
    /\ inflight[sPair].state = "pending"
    /\ \E as \in ServerAssets, ps \in ServerPools :
          /\ cache' = RefreshPairs(as, ps)
          /\ served' = PairResponse(cache', inflight[sPair].param,
                                    now, FALSE)
    /\ inflight' = [inflight EXCEPT ![sPair] = Idle]
    /\ UNCHANGED now
    /\ UNCHANGED pipelineVars

\* GET /api/pairs/:poolAddress after a fetch has failed
PairFailed ==
    /\ inflight[sPair].state = "pending"
    /\ \E message \in {"getAssets failed", "getPools failed"} :
          served' = ServerError(sPair, message, now)
    /\ inflight' = [inflight EXCEPT ![sPair] = Idle]
    /\ UNCHANGED <<now, cache>>
    /\ UNCHANGED pipelineVars

\* the outcome of the predicate of the search route on one pair
SearchRouteOutcome(pair, searchTerm) ==
    IF includes(toLowerCase(pair.name), searchTerm) THEN "true"
    ELSE IF ~Has(pair.token0, "symbol") THEN "throw"
    ELSE IF includes(toLowerCase(pair.token0.symbol), searchTerm) THEN "true"
    ELSE IF ~Has(pair.token1, "symbol") THEN "throw"
    ELSE IF includes(toLowerCase(pair.token1.symbol), searchTerm) THEN "true"
    ELSE IF ~Has(pair.token0, "name") THEN "throw"
    ELSE IF includes(toLowerCase(pair.token0.name), searchTerm) THEN "true"
    ELSE IF ~Has(pair.token1, "name") THEN "throw"
    ELSE IF includes(toLowerCase(pair.token1.name), searchTerm) THEN "true"
    ELSE "false"

\* the rest of GET /api/pairs/search/:query: filter c.pairs and answer
SearchResponse(c, q, at, fromCache) ==
    LET searchTerm == toLowerCase(q)
        all == c.pairs.value
        kept == {i \in DOMAIN all : SearchRouteOutcome(all[i], searchTerm) = "true"}
        filteredList ==
            [k \in 1..Cardinality(kept) |->
                all[CHOOSE i \in kept :
                       Cardinality({j \in kept : j <= i}) = k]]
    IN  IF \E i \in DOMAIN all : SearchRouteOutcome(all[i], searchTerm) = "throw"
        THEN ServerError(sSearch,
                 "Cannot read properties of undefined (reading 'toLowerCase')", at)
        ELSE Response(sSearch, 200,
                 [success |-> TRUE, data |-> filteredList, query |-> q,
                  totalResults |-> Len(filteredList),
                  lastUpdated |-> c.lastUpdated.value],
                 at, fromCache, NotNull(c.pairs.fetchedAt))

\* GET /api/pairs/search/:query up to the await
SearchRequest ==
    /\ inflight[sSearch] = Idle
    /\ \E q \in SearchParams :
          IF ~isCacheValid \/ cache.pairs.isNull
          THEN /\ inflight' = [inflight EXCEPT ![sSearch] = Pending(q)]
               /\ served' = NoResponse
          ELSE /\ served' = SearchResponse(cache, q, now, TRUE)
               /\ UNCHANGED inflight
    /\ UNCHANGED <<now, cache>>
    /\ UNCHANGED pipelineVars

\* GET /api/pairs/search/:query after both fetches have resolved
SearchFetched ==
    /\ inflight[sSearch].state = "pending"
    /\ \E as \in ServerAssets, ps \in ServerPools :
          /\ cache' = RefreshPairs(as, ps)
          /\ served' = SearchResponse(cache', inflight[sSearch].param,
                                      now, FALSE)
    /\ inflight' = [inflight EXCEPT ![sSearch] = Idle]
    /\ UNCHANGED now
    /\ UNCHANGED pipelineVars

\* GET /api/pairs/search/:query after a fetch has failed
SearchFailed ==
    /\ inflight[sSearch].state = "pending"
    /\ \E message \in {"getAssets failed", "getPools failed"} :
          served' = ServerError(sSearch, message, now)
    /\ inflight' = [inflight EXCEPT ![sSearch] = Idle]
    /\ UNCHANGED <<now, cache>>
    /\ UNCHANGED pipelineVars

\* time passes
Tick ==
    /\ now + TickMs <= MaxTicks * TickMs
    /\ now' = now + TickMs
    /\ served' = NoResponse
    /\ UNCHANGED <<cache, inflight>>
    /\ UNCHANGED pipelineVars

InitCache ==
    /\ now = TickMs
    /\ cache = EmptyCache
    /\ inflight = [r \in Routes |-> Idle]
    /\ served = NoResponse
    /\ pc = "server"
    /\ method = sGET
    /\ query = EmptyObject
    /\ assetsFetch = NoPromise
    /\ poolsFetch = NoPromise
    /\ allPromise = NoPromise
    /\ assets = <<>>
    /\ pools = <<>>
    /\ pairs = <<>>
    /\ filters = DefaultFilters
    /\ filteredPairs = <<>>
    /\ page = 1
    /\ limit = DefaultLimit
    /\ paginatedResult = EmptyObject
    /\ responses = <<>>

NextCache ==
    \/ AssetsRequest
    \/ AssetsFetched
    \/ AssetsFailed
    \/ PoolsRequest
    \/ PoolsFetched
    \/ PoolsFailed
    \/ PairRequest
    \/ PairFetched
    \/ PairFailed
    \/ SearchRequest
    \/ SearchFetched
    \/ SearchFailed
    \/ Tick

SpecCache == InitCache /\ [][NextCache]_vars

(***************************************************************************)
(* Claims about the cache.                                                 *)
(***************************************************************************)
\* the last response was served from the cache and carries data
ServedFromCache ==
    served.status = 200 /\ served.fromCache /\ ~served.dataFetchedAt.isNull

\* the data served from the cache was fetched no more than CACHE_DURATION
\* before the request
ServedFresh ==
    ServedFromCache =>
        served.at - served.dataFetchedAt.value <= CACHE_DURATION

Datasets == {"assets", "pools", "pairs"}

\* the routes serve the cached dataset d without a fetch
CountsAsValid(d) == isCacheValid /\ ~cache[d].isNull

\* a step that leaves a cached dataset as it is, fetched before the step and
\* not counting as valid, does not make it count as valid
NoRevalidation ==
    \A d \in Datasets :
        (/\ ~cache[d].isNull
         /\ cache'[d] = cache[d]
         /\ cache[d].fetchedAt < now
         /\ ~CountsAsValid(d)) => ~CountsAsValid(d)'

\* C17: after any interleaving of requests to the four routes, a response
\* served from the cache never carries data fetched more than CACHE_DURATION
\* before the request, and a refresh of one cached dataset never makes
\* another, older cached dataset count as valid again.
C17_CacheFresh == [](ServedFresh) /\ [][NoRevalidation]_vars

====
